---- MODULE Spec2Model ----
(***************************************************************************)
(* A model of floringogianu/optuna_boilerplate:                            *)
(*   src/options.py  class Opt  (nested <-> flat configuration)            *)
(*   src/search.py   suggest_config  (search-space expansion)              *)
(*                                                                         *)
(* Python values are records [t, kind, args, kids]:                        *)
(*   t = "val"  a non-mapping value; kind/args say which one: a number     *)
(*              ("num", <<n>>), a pathlib.Path ("path", its components),   *)
(*              or a search-space tuple (kind, args);                      *)
(*   t = "dict" a plain dict, kids = its items in insertion order;         *)
(*   t = "ns"   an Opt (argparse.Namespace), kids = its __dict__ items in  *)
(*              insertion order;                                           *)
(*   t = "err"  a raised exception, kind = its class;                      *)
(*   t = "none" no value (the name is not bound yet).                      *)
(* A string is the sequence of its characters, so that rstrip, endswith,   *)
(* split and the f-string join are computed and not assumed.               *)
(***************************************************************************)
EXTENDS Integers, Sequences, FiniteSets, TLC

VARIABLES
    d, opt, dct, fd, opt_, dct_,          \* options.py main(): d, opt, fd, opt_
    fd_, flat_rev, opt_rev,               \* a flat dict and the same items reversed
    u, upd, upd_swap,                     \* _recursive_update(d, u) and (u, d)
    nassign,                              \* direct field assignments made on opt
    base_hp, tune_hp, flat_base, flat_tune, candidate, trial_opt,
    pc, idx, number, calls, outcome, base0, tune0

roundVars == <<d, opt, dct, fd, opt_, dct_>>
flatVars == <<fd_, flat_rev, opt_rev>>
mergeVars == <<u, upd, upd_swap>>
resolveVars == <<base_hp, tune_hp, flat_base, flat_tune, candidate, trial_opt,
                 pc, idx, number, calls, outcome, base0, tune0>>
vars == <<roundVars, flatVars, mergeVars, nassign, resolveVars>>

----------------------------------------------------------------------------
\* Bounds of the model.
MaxNodes == 3
MaxFlat == 2
MaxMergeNodes == 2
MaxAssign == 2
MaxBaseNodes == 2
MaxTuneNodes == 2
MaxTrials == 2

----------------------------------------------------------------------------
\* Python values.
Mk(t, kind, args, kids) == [t |-> t, kind |-> kind, args |-> args, kids |-> kids]
Val(kind, args) == Mk("val", kind, args, <<>>)
Num(n) == Val("num", <<n>>)
Dict(items) == Mk("dict", "", <<>>, items)
Ns(items) == Mk("ns", "", <<>>, items)
Raise(e) == Mk("err", e, <<>>, <<>>)
None == Mk("none", "", <<>>, <<>>)
PyNone == <<"None">>

isdict(x) == x.t = "dict"
isnamespace(x) == x.t = "ns"
IsErr(x) == x.t = "err"

\* dict operations on an item list <<key, value>>, insertion order kept.
HasKey(items, k) == \E i \in 1..Len(items) : items[i][1] = k
IndexOf(items, k) == CHOOSE i \in 1..Len(items) : items[i][1] = k
GetItem(items, k) == items[IndexOf(items, k)][2]
SetItem(items, k, v) ==
    IF HasKey(items, k) THEN [items EXCEPT ![IndexOf(items, k)] = <<k, v>>]
    ELSE Append(items, <<k, v>>)
PopItem(items, k) == SelectSeq(items, LAMBDA p : p[1] # k)
KeySet(items) == {items[i][1] : i \in 1..Len(items)}

\* str.endswith("_"), str.rstrip("_"), "." in key, str.split("."), f"{p}.{k}"
endswith(key, c) == Len(key) > 0 /\ key[Len(key)] = c
RECURSIVE rstrip(_, _)
rstrip(key, c) ==
    IF endswith(key, c) THEN rstrip(SubSeq(key, 1, Len(key) - 1), c) ELSE key
contains(key, c) == \E i \in 1..Len(key) : key[i] = c
RECURSIVE split(_, _)
split(key, c) ==
    IF ~contains(key, c) THEN <<key>>
    ELSE LET i == CHOOSE j \in 1..Len(key) :
                     key[j] = c /\ \A m \in 1..(j - 1) : key[m] # c
         IN <<SubSeq(key, 1, i - 1)>> \o split(SubSeq(key, i + 1, Len(key)), c)
\* join without the separator
join_no_dot(prev_key, key) == prev_key \o key
join(prev_key, key) == prev_key \o <<".">> \o key

----------------------------------------------------------------------------
\* Opt.from_dict
RECURSIVE from_dict(_), from_dict_loop(_, _)
\* from_dict storing a "_" field under its decorated name only
RECURSIVE from_dict_loop_no_alias(_, _)
from_dict_loop_no_alias(items, lopt) ==
    IF Len(items) = 0 THEN lopt
    ELSE LET key == items[1][1]
             value == items[1][2]
         IN from_dict_loop_no_alias(Tail(items),
                IF isdict(value) /\ ~endswith(key, "_")
                THEN SetItem(lopt, rstrip(key, "_"), from_dict(value))
                ELSE SetItem(lopt, key, value))
from_dict_loop(items, lopt) ==
    IF Len(items) = 0 THEN lopt
    ELSE LET key == items[1][1]
             value == items[1][2]
             name == rstrip(key, "_")
         IN from_dict_loop(Tail(items),
                IF isdict(value) /\ ~endswith(key, "_")
                THEN SetItem(lopt, name, from_dict(value))
                ELSE SetItem(SetItem(lopt, name, value), key, value))
from_dict(dd) == Ns(from_dict_loop(dd.kids, <<>>))

\* Opt.to_dict
RECURSIVE to_dict(_), to_dict_loop(_, _)
to_dict_loop(items, acc) ==
    IF Len(items) = 0 THEN acc
    ELSE LET key == items[1][1]
             value == items[1][2]
             skey == rstrip(key, "_")
             popped == IF HasKey(acc, skey) THEN PopItem(acc, skey) ELSE acc
         IN to_dict_loop(Tail(items),
                IF isnamespace(value) THEN SetItem(popped, key, to_dict(value))
                ELSE SetItem(popped, key, value))
to_dict(self) == Dict(to_dict_loop(self.kids, <<>>))

\* dict.update
RECURSIVE update(_, _)
update(items, other) ==
    IF Len(other) = 0 THEN items
    ELSE update(SetItem(items, other[1][1], other[1][2]), Tail(other))

\* Opt._flatten_dict
RECURSIVE _flatten_dict(_, _), _flatten_loop(_, _, _)
_flatten_loop(items, prev_key, flat_dct) ==
    IF Len(items) = 0 THEN flat_dct
    ELSE LET key == items[1][1]
             value == items[1][2]
             new_key == IF prev_key # PyNone THEN join(prev_key, key) ELSE key
         IN _flatten_loop(Tail(items), prev_key,
                IF isdict(value)
                THEN update(flat_dct, _flatten_dict(value, new_key).kids)
                ELSE SetItem(flat_dct, new_key, value))
_flatten_dict(dd, prev_key) == Dict(_flatten_loop(dd.kids, prev_key, <<>>))

\* Opt.to_flat_dict
to_flat_dict(self) == _flatten_dict(to_dict(self), PyNone)

\* Opt._expand_from_keys
RECURSIVE _expand_from_keys(_, _)
\* _expand_from_keys stopping at the first key
_expand_first_key(keys, value) ==
    IF Len(keys) = 0 THEN Dict(<<>>) ELSE Dict(<< <<keys[1], value>> >>)
_expand_from_keys(keys, value) ==
    IF Len(keys) = 0 THEN Dict(<<>>)
    ELSE Dict(<< <<keys[1], IF Len(keys) > 1
                            THEN _expand_from_keys(Tail(keys), value)
                            ELSE value>> >>)

\* Opt._recursive_update; d.get and d[k] = v raise on a d that is no dict.
RECURSIVE _recursive_update(_, _), _recursive_update_loop(_, _)
_recursive_update_loop(dd, items) ==
    IF Len(items) = 0 \/ IsErr(dd) THEN dd
    ELSE LET k == items[1][1]
             v == items[1][2]
         IN _recursive_update_loop(
                IF isdict(v)
                THEN IF ~isdict(dd) THEN Raise("AttributeError")
                     ELSE LET sub == _recursive_update(
                                         IF HasKey(dd.kids, k) THEN GetItem(dd.kids, k)
                                         ELSE Dict(<<>>), v)
                          IN IF IsErr(sub) THEN sub
                             ELSE Dict(SetItem(dd.kids, k, sub))
                ELSE IF ~isdict(dd) THEN Raise("TypeError")
                     ELSE Dict(SetItem(dd.kids, k, v)),
                Tail(items))
\* a shallow d.update(u) in place of the recursion
_shallow_update(dd, uu) == Dict(update(dd.kids, uu.kids))
_recursive_update(dd, uu) == _recursive_update_loop(dd, uu.kids)

\* Opt.from_flat_dict
RECURSIVE from_flat_loop(_, _)
from_flat_loop(items, exp_dict) ==
    IF Len(items) = 0 \/ IsErr(exp_dict) THEN exp_dict
    ELSE LET key == items[1][1]
             value == items[1][2]
             keys == split(key, ".")
             key_ == keys[1]
             sub == IF ~HasKey(exp_dict.kids, key_)
                    THEN _expand_from_keys(Tail(keys), value)
                    ELSE _recursive_update(GetItem(exp_dict.kids, key_),
                                           _expand_from_keys(Tail(keys), value))
         IN from_flat_loop(Tail(items),
                IF contains(key, ".")
                THEN IF IsErr(sub) THEN sub
                     ELSE Dict(SetItem(exp_dict.kids, key_, sub))
                ELSE Dict(SetItem(exp_dict.kids, key, value)))
from_flat_dict(flat_dict) ==
    LET exp_dict == from_flat_loop(flat_dict.kids, Dict(<<>>))
    IN IF IsErr(exp_dict) THEN exp_dict ELSE from_dict(exp_dict)

\* dict.__eq__ / Namespace.__eq__: same keys, equal values, any order.
RECURSIVE PyEq(_, _)
PyEq(x, y) ==
    /\ x.t = y.t
    /\ x.kind = y.kind
    /\ x.args = y.args
    /\ Len(x.kids) = Len(y.kids)
    /\ \A i \in 1..Len(x.kids) :
          /\ HasKey(y.kids, x.kids[i][1])
          /\ PyEq(x.kids[i][2], GetItem(y.kids, x.kids[i][1]))

----------------------------------------------------------------------------
\* The inputs: names, scalars, nested maps of at most MaxNodes fields.
KeyNames == {<<"a">>, <<"a", "_">>, <<"b">>}
Scalars == {Num(1), Num(2)}

RECURSIVE ItemsOfSize(_, _, _)
ItemsOfSize(n, names, leaves) ==
    IF n = 0 THEN {<<>>}
    ELSE UNION {
           {<<<<t[1], t[2]>>>> \o t[3] :
               t \in {tt \in names
                              \X (IF m = 0 THEN leaves
                                  ELSE {Dict(s) : s \in ItemsOfSize(m, names, leaves)})
                              \X ItemsOfSize(n - 1 - m, names, leaves) :
                          tt[1] \notin KeySet(tt[3])}}
           : m \in 0..(n - 1)}
MapsOfSize(n, names, leaves) ==
    {Dict(s) : s \in UNION {ItemsOfSize(m, names, leaves) : m \in 0..n}}
NestedMaps ==
    MapsOfSize(MaxNodes, KeyNames, Scalars \cup {Dict(<<>>)})
        \cup {Dict(<< <<<<"a", ".", "b">>, Num(1)>> >>),
               Dict(<< <<<<"a">>, Num(1)>>, <<<<"a", ".", "b">>, Num(2)>> >>),
               Dict(<< <<<<"a">>, Dict(<< <<<<"a", ".", "b">>, Num(1)>> >>)>> >>)}

RoundIdle == opt = None /\ dct = None /\ fd = None /\ opt_ = None /\ dct_ = None
FlatIdle == fd_ = None /\ flat_rev = None /\ opt_rev = None
MergeIdle == u = None /\ upd = None /\ upd_swap = None
ResolveIdle ==
    /\ base_hp = None /\ tune_hp = None /\ flat_base = None /\ flat_tune = None
    /\ candidate = None /\ trial_opt = None /\ pc = "idle" /\ idx = 0
    /\ number = 0 /\ calls = <<>> /\ outcome = None /\ base0 = None
    /\ tune0 = None

----------------------------------------------------------------------------
\* options.py main(): d -> opt -> fd -> opt_, and to_dict of opt and of opt_.
InitRound ==
    /\ d \in NestedMaps
    /\ RoundIdle /\ FlatIdle /\ MergeIdle /\ nassign = 0 /\ ResolveIdle

FromDict ==
    /\ opt = None
    /\ opt' = from_dict(d)
    /\ UNCHANGED <<d, dct, fd, opt_, dct_, flatVars, mergeVars, nassign, resolveVars>>

ToDict ==
    /\ opt # None /\ dct = None
    /\ dct' = to_dict(opt)
    /\ UNCHANGED <<d, opt, fd, opt_, dct_, flatVars, mergeVars, nassign, resolveVars>>

ToFlatDict ==
    /\ opt # None /\ fd = None
    /\ fd' = to_flat_dict(opt)
    /\ UNCHANGED <<d, opt, dct, opt_, dct_, flatVars, mergeVars, nassign, resolveVars>>

FromFlatDict ==
    /\ fd # None /\ opt_ = None
    /\ opt_' = from_flat_dict(fd)
    /\ UNCHANGED <<d, opt, dct, fd, dct_, flatVars, mergeVars, nassign, resolveVars>>

ToDictBack ==
    /\ opt_ # None /\ ~IsErr(opt_) /\ dct_ = None
    /\ dct_' = to_dict(opt_)
    /\ UNCHANGED <<d, opt, dct, fd, opt_, flatVars, mergeVars, nassign, resolveVars>>

NextRound == FromDict \/ ToDict \/ ToFlatDict \/ FromFlatDict \/ ToDictBack
SpecRound == InitRound /\ [][NextRound]_vars

----------------------------------------------------------------------------
\* Opt.from_flat_dict on a flat dict given by the caller (fd), on the same
\* items inserted in the opposite order (flat_rev), and to_flat_dict back.
FlatKeys ==
    {<<"a">>, <<"a", "_">>, <<"a", "_", "_">>, <<"b">>, <<"a", ".", "b">>,
     <<"a", "_", ".", "b">>, <<"a", ".", "b", "_">>, <<"a", ".", "b", ".", "c">>,
     <<"a", ".", ".", "b">>}
FlatValues == Scalars \cup {Dict(<< <<<<"b">>, Num(1)>> >>)}
RECURSIVE FlatItems(_)
FlatItems(n) ==
    IF n = 0 THEN {<<>>}
    ELSE {<<<<t[1], t[2]>>>> \o t[3] :
             t \in {tt \in FlatKeys \X FlatValues \X FlatItems(n - 1) :
                        tt[1] \notin KeySet(tt[3])}}
FlatMaps == {Dict(s) : s \in UNION {FlatItems(n) : n \in 0..MaxFlat}}
Reverse(items) == [i \in 1..Len(items) |-> items[Len(items) + 1 - i]]

InitFlat ==
    /\ fd \in FlatMaps
    /\ flat_rev = Dict(Reverse(fd.kids))
    /\ d = None /\ opt = None /\ dct = None /\ opt_ = None /\ dct_ = None
    /\ fd_ = None /\ opt_rev = None
    /\ MergeIdle /\ nassign = 0 /\ ResolveIdle

FromFlatDictRev ==
    /\ flat_rev # None /\ opt_rev = None
    /\ opt_rev' = from_flat_dict(flat_rev)
    /\ UNCHANGED <<roundVars, fd_, flat_rev, mergeVars, nassign, resolveVars>>

ToFlatDictBack ==
    /\ opt_ # None /\ ~IsErr(opt_) /\ fd_ = None
    /\ fd_' = to_flat_dict(opt_)
    /\ UNCHANGED <<roundVars, flat_rev, opt_rev, mergeVars, nassign, resolveVars>>

NextFlat == FromFlatDict \/ FromFlatDictRev \/ ToFlatDictBack
SpecFlat == InitFlat /\ [][NextFlat]_vars

----------------------------------------------------------------------------
\* Opt._recursive_update(d, u), and with the arguments swapped.
MergeNames == {<<"a">>, <<"b">>}
MergeMaps == MapsOfSize(MaxMergeNodes, MergeNames, Scalars \cup {Dict(<<>>)})

InitMerge ==
    /\ d \in MergeMaps /\ u \in MergeMaps
    /\ upd = None /\ upd_swap = None
    /\ RoundIdle /\ FlatIdle /\ nassign = 0 /\ ResolveIdle

RecursiveUpdate ==
    /\ upd = None
    /\ upd' = _recursive_update(d, u)
    /\ UNCHANGED <<roundVars, flatVars, u, upd_swap, nassign, resolveVars>>

RecursiveUpdateSwapped ==
    /\ upd_swap = None
    /\ upd_swap' = _recursive_update(u, d)
    /\ UNCHANGED <<roundVars, flatVars, u, upd, nassign, resolveVars>>

NextMerge == RecursiveUpdate \/ RecursiveUpdateSwapped
SpecMerge == InitMerge /\ [][NextMerge]_vars

----------------------------------------------------------------------------
\* Direct field assignment on an Opt (Namespace.__setattr__), then to_dict.
AssignNames == {<<"x">>, <<"x", "_">>, <<"x", "_", "_">>, <<"y">>}
AssignMaps == MapsOfSize(1, {<<"x">>, <<"x", "_">>}, Scalars)

InitAssign ==
    /\ d \in AssignMaps
    /\ RoundIdle /\ FlatIdle /\ MergeIdle /\ nassign = 0 /\ ResolveIdle

SetAttr ==
    /\ opt # None /\ nassign < MaxAssign
    /\ \E name \in AssignNames, value \in Scalars :
           opt' = Ns(SetItem(opt.kids, name, value))
    /\ nassign' = nassign + 1
    /\ dct' = None
    /\ UNCHANGED <<d, fd, opt_, dct_, flatVars, mergeVars, resolveVars>>

NextAssign == FromDict \/ SetAttr \/ ToDict
SpecAssign == InitAssign /\ [][NextAssign]_vars

----------------------------------------------------------------------------
\* search.py suggest_config(trial, base_hp, tune_hp), one call per trial.
\* The sampler (optuna's trial.suggest_*) is external: each invocation
\* returns a value of the spec's range or raises.  Floats are modelled by
\* integers; a spec's args are <<low, high, step, log>> with None and False
\* written 0, or the candidates of a categorical.
OutDir == <<"o", "u", "t", "_", "d", "i", "r">>
BaseNames == {<<"a">>, <<"a", "_">>, <<"b">>}
TuneNames == {<<"a">>, <<"b">>}
IntSpec == Val("int", <<2, 3, 0, 0>>)
FloatSpec == Val("float", <<3, 3, 0, 1>>)
CategoricalSpec == Val("categorical", <<4>>)
EnumSpec == Val("enum", <<4>>)
BaseMaps == MapsOfSize(MaxBaseNodes, BaseNames, {Num(1)})
TuneMaps ==
    MapsOfSize(MaxTuneNodes, TuneNames, {IntSpec, EnumSpec})
        \cup {Dict(<< <<<<"a">>, FloatSpec>>, <<<<"b">>, CategoricalSpec>> >>),
               Dict(<< <<<<"b">>, CategoricalSpec>>, <<<<"a">>, EnumSpec>> >>),
               Dict(<< <<<<"a">>, Dict(<< <<<<"b">>, FloatSpec>> >>)>> >>),
               Dict(<< <<<<"a", "_">>, IntSpec>> >>),
               Dict(<< <<<<"b">>, IntSpec>>, <<<<"a", "_">>, CategoricalSpec>> >>),
               Dict(<< <<<<"a", "_">>, IntSpec>>, <<<<"b">>, EnumSpec>> >>),
               Dict(<< <<<<"a">>, Dict(<< <<<<"a", "_">>, IntSpec>> >>)>> >>),
               Dict(<< <<<<"a", "_">>, Dict(<< <<<<"b">>, IntSpec>> >>)>> >>)}

\* pathlib.Path: its components; the component f"trial_{n:04d}" is written n.
Path(parts) == Val("path", parts)
ispath(x) == x.t = "val" /\ x.kind = "path"
truediv(x, part) ==
    IF ispath(x) THEN Path(Append(x.args, part)) ELSE Raise("TypeError")

\* search.py main(): base_hp.out_dir = Path.cwd() / opt.results_dir / search_name
with_out_dir(o) == Ns(SetItem(o.kids, OutDir, Path(<<>>)))

\* suggest_config without its categorical branch
supported_numeric(kind) == kind \in {"int", "float"}
\* the kinds suggest_config has a branch for
supported(kind) == kind \in {"int", "float", "categorical"}
\* the values trial.suggest_int / suggest_float / suggest_categorical may return
suggest(kind, args) ==
    IF kind = "categorical" THEN {Num(args[i]) : i \in 1..Len(args)}
    ELSE {Num(n) : n \in args[1]..args[2]}
\* the sampler called with the last segment of the key
suggest_last_segment(k) == split(k, ".")[Len(split(k, "."))]
\* the name the sampler is called with for the leaf at key k
suggest_name(k) == k

\* the merge with its arguments swapped: base values win
finish_base_wins(base, flat, cand, n) ==
    LET merged == _recursive_update(cand, flat)
        t_opt == IF IsErr(merged) THEN merged ELSE from_flat_dict(merged)
        joined == truediv(GetItem(t_opt.kids, OutDir), n)
    IN [base_hp |-> base,
        flat_base |-> flat,
        trial_opt |->
            IF IsErr(t_opt) THEN t_opt
            ELSE IF ~HasKey(t_opt.kids, OutDir) THEN Raise("AttributeError")
            ELSE IF IsErr(joined) THEN joined
            ELSE Ns(SetItem(t_opt.kids, OutDir, joined))]
\* the trial directory written to base_hp.out_dir as well
finish_writes_base(base, flat, cand, n) ==
    LET merged == _recursive_update(flat, cand)
        t_opt == IF IsErr(merged) THEN merged ELSE from_flat_dict(merged)
        joined == truediv(GetItem(t_opt.kids, OutDir), n)
        ok == ~IsErr(t_opt) /\ HasKey(t_opt.kids, OutDir) /\ ~IsErr(joined)
    IN [base_hp |-> IF ok THEN Ns(SetItem(base.kids, OutDir, joined)) ELSE base,
        flat_base |-> IF IsErr(merged) THEN flat ELSE merged,
        trial_opt |->
            IF IsErr(t_opt) THEN t_opt
            ELSE IF ~HasKey(t_opt.kids, OutDir) THEN Raise("AttributeError")
            ELSE IF IsErr(joined) THEN joined
            ELSE Ns(SetItem(t_opt.kids, OutDir, joined))]

\* lines 73-76: merge, expand, trial_opt.out_dir = trial_opt.out_dir / ...
\* The result names both objects: base_hp as the call leaves it, and the
\* value returned (or the exception raised).
finish(base, flat, cand, n) ==
    LET merged == _recursive_update(flat, cand)
        t_opt == IF IsErr(merged) THEN merged ELSE from_flat_dict(merged)
        joined == truediv(GetItem(t_opt.kids, OutDir), n)
    IN [base_hp |-> base,
        flat_base |-> IF IsErr(merged) THEN flat ELSE merged,
        trial_opt |->
            IF IsErr(t_opt) THEN t_opt
            ELSE IF ~HasKey(t_opt.kids, OutDir) THEN Raise("AttributeError")
            ELSE IF IsErr(joined) THEN joined
            ELSE Ns(SetItem(t_opt.kids, OutDir, joined))]

BaseOpts == {from_dict(b) : b \in BaseMaps}
TuneOpts == {from_dict(t) : t \in TuneMaps}

InitResolve ==
    /\ base_hp \in BaseOpts \cup {with_out_dir(o) : o \in BaseOpts}
    /\ tune_hp \in TuneOpts
    /\ base0 = to_dict(base_hp) /\ tune0 = to_dict(tune_hp)
    /\ flat_base = None /\ flat_tune = None /\ candidate = None /\ trial_opt = None
    /\ pc = "idle" /\ idx = 0 /\ number = 0 /\ calls = <<>> /\ outcome = None
    /\ d = None /\ RoundIdle /\ FlatIdle /\ MergeIdle /\ nassign = 0

others == <<roundVars, flatVars, mergeVars, nassign>>

\* lines 57-59, with a fresh trial object
Begin ==
    /\ pc = "idle" /\ number < MaxTrials
    /\ flat_base' = to_flat_dict(base_hp)
    /\ flat_tune' = to_flat_dict(tune_hp)
    /\ candidate' = Dict(<<>>)
    /\ calls' = <<>>
    /\ idx' = 1
    /\ pc' = "loop"
    /\ outcome' = None /\ trial_opt' = None
    /\ UNCHANGED <<base_hp, tune_hp, number, base0, tune0, others>>

\* lines 60-69: one leaf of a supported kind, the sampler returns a value
Suggest ==
    /\ pc = "loop" /\ idx <= Len(flat_tune.kids)
    /\ LET k == flat_tune.kids[idx][1]
           v == flat_tune.kids[idx][2]
       IN /\ supported(v.kind)
          /\ \E x \in suggest(v.kind, v.args) :
                /\ candidate' = Dict(SetItem(candidate.kids, k, x))
                /\ calls' = Append(calls, <<suggest_name(k), x>>)
    /\ idx' = idx + 1
    /\ UNCHANGED <<base_hp, tune_hp, flat_base, flat_tune, trial_opt, pc, number,
                   outcome, base0, tune0, others>>

\* lines 60-69: the sampler raises, and the exception leaves suggest_config
SuggestRaises ==
    /\ pc = "loop" /\ idx <= Len(flat_tune.kids)
    /\ LET k == flat_tune.kids[idx][1]
           v == flat_tune.kids[idx][2]
       IN /\ supported(v.kind)
          /\ calls' = Append(calls, <<suggest_name(k), Raise("TrialPruned")>>)
    /\ outcome' = Raise("TrialPruned")
    /\ pc' = "idle" /\ number' = number + 1
    /\ UNCHANGED <<base_hp, tune_hp, flat_base, flat_tune, candidate, trial_opt,
                   idx, base0, tune0, others>>

\* lines 70-71
Unsupported ==
    /\ pc = "loop" /\ idx <= Len(flat_tune.kids)
    /\ ~supported(flat_tune.kids[idx][2].kind)
    /\ outcome' = Raise("ValueError")
    /\ pc' = "idle" /\ number' = number + 1
    /\ UNCHANGED <<base_hp, tune_hp, flat_base, flat_tune, candidate, trial_opt,
                   idx, calls, base0, tune0, others>>

\* lines 72-76
Finish ==
    /\ pc = "loop" /\ idx > Len(flat_tune.kids)
    /\ LET r == finish(base_hp, flat_base, candidate, number)
       IN /\ base_hp' = r.base_hp
          /\ flat_base' = r.flat_base
          /\ trial_opt' = r.trial_opt
          /\ outcome' = r.trial_opt
    /\ pc' = "idle" /\ number' = number + 1
    /\ UNCHANGED <<tune_hp, flat_tune, candidate, idx, calls, base0, tune0, others>>

NextResolve == Begin \/ Suggest \/ SuggestRaises \/ Unsupported \/ Finish
SpecResolve == InitResolve /\ [][NextResolve]_vars

----------------------------------------------------------------------------
\* Shapes of a nested map.  A group is a mapping reached through names that
\* do not end in "_"; a mapping under a name ending in "_" is an opaque leaf.
RECURSIVE NoDotInNames(_)
NoDotInNames(g) ==
    \A i \in 1..Len(g.kids) :
        /\ ~contains(g.kids[i][1], ".")
        /\ isdict(g.kids[i][2]) => NoDotInNames(g.kids[i][2])
RECURSIVE NoDecoratedWithBare(_)
NoDecoratedWithBare(g) ==
    \A i \in 1..Len(g.kids) :
        /\ endswith(g.kids[i][1], "_") => ~HasKey(g.kids, rstrip(g.kids[i][1], "_"))
        /\ (isdict(g.kids[i][2]) /\ ~endswith(g.kids[i][1], "_"))
               => NoDecoratedWithBare(g.kids[i][2])
RECURSIVE NoEmptyMapping(_)
NoEmptyMapping(g) ==
    \A i \in 1..Len(g.kids) :
        isdict(g.kids[i][2]) =>
            Len(g.kids[i][2].kids) > 0 /\ NoEmptyMapping(g.kids[i][2])
RECURSIVE Depth(_)
Depth(g) ==
    IF ~isdict(g) \/ Len(g.kids) = 0 THEN 0
    ELSE 1 + CHOOSE m \in 0..MaxNodes + 1 :
                 /\ \A i \in 1..Len(g.kids) : Depth(g.kids[i][2]) <= m
                 /\ \E i \in 1..Len(g.kids) : Depth(g.kids[i][2]) = m
HasOpaqueMapping(g) ==
    \E i \in 1..Len(g.kids) : endswith(g.kids[i][1], "_") /\ isdict(g.kids[i][2])
SharesBare(g, k) ==
    \E j \in 1..Len(g.kids) :
        g.kids[j][1] # k /\ rstrip(g.kids[j][1], "_") = rstrip(k, "_")

\* C1 as claimed: for every nested configuration whose names hold no "." and
\* where no group holds a decorated name with its bare name, empty groups
\* included, Expand(Flatten(ToNestedMap(FromNestedMap(C)))) reduced to a nested
\* map equals C.
C1_RoundTripAsClaimed ==
    (opt_ # None /\ NoDotInNames(d) /\ NoDecoratedWithBare(d)) =>
        /\ ~IsErr(opt_)
        /\ dct_ # None => PyEq(dct_, d)

\* C1 amended: the same round trip, for configurations that moreover hold no
\* empty mapping (no empty group, no empty mapping under a "_" name).
C1_RoundTrip ==
    (opt_ # None /\ NoDotInNames(d) /\ NoDecoratedWithBare(d) /\ NoEmptyMapping(d)) =>
        /\ ~IsErr(opt_)
        /\ dct_ # None => PyEq(dct_, d)

C1_Witness ==
    /\ dct_ # None /\ NoDotInNames(d) /\ NoDecoratedWithBare(d) /\ NoEmptyMapping(d)
    /\ Depth(d) = 3
    /\ \E i \in 1..Len(d.kids) : isdict(d.kids[i][2]) /\ HasOpaqueMapping(d.kids[i][2])
    /\ PyEq(dct_, d)

\* C6 as claimed: every field named with a trailing "_" whose value is a
\* mapping is stored by FromNestedMap unexpanded under its decorated and its
\* bare name, both holding the same value, and ToNestedMap of the structure
\* keeps the decorated entry only.
RECURSIVE DualStored(_, _, _, _)
DualStored(g, n, m, alone) ==
    \A i \in 1..Len(g.kids) :
        LET k == g.kids[i][1]
            v == g.kids[i][2]
            bare == rstrip(k, "_")
        IN /\ (endswith(k, "_") /\ isdict(v) /\ (alone => ~SharesBare(g, k))) =>
                  /\ HasKey(n.kids, k) /\ GetItem(n.kids, k) = v
                  /\ HasKey(n.kids, bare) /\ GetItem(n.kids, bare) = v
                  /\ HasKey(m.kids, k) /\ GetItem(m.kids, k) = v
                  /\ ~HasKey(m.kids, bare)
           /\ (/\ isdict(v) /\ ~endswith(k, "_")
               /\ HasKey(n.kids, k) /\ isnamespace(GetItem(n.kids, k))
               /\ HasKey(m.kids, k) /\ isdict(GetItem(m.kids, k))) =>
                  DualStored(v, GetItem(n.kids, k), GetItem(m.kids, k), alone)
RECURSIVE NoSharedBare(_)
NoSharedBare(g) ==
    \A i \in 1..Len(g.kids) :
        /\ ~SharesBare(g, g.kids[i][1])
        /\ (isdict(g.kids[i][2]) /\ ~endswith(g.kids[i][1], "_"))
               => NoSharedBare(g.kids[i][2])

----------------------------------------------------------------------------
\* Shapes of a flat map.
IsPrefix(p, q) == Len(p) <= Len(q) /\ SubSeq(q, 1, Len(p)) = p
NonMappingValues(f) == \A i \in 1..Len(f.kids) : ~isdict(f.kids[i][2])
NoEmptySegment(f) ==
    \A i \in 1..Len(f.kids) :
        LET k == f.kids[i][1]
        IN /\ Len(k) > 0 /\ k[1] # "." /\ k[Len(k)] # "."
           /\ \A j \in 1..(Len(k) - 1) : ~(k[j] = "." /\ k[j + 1] = ".")
StrictPathPrefix(k1, k2) == k1 # k2 /\ IsPrefix(k1 \o <<".">>, k2)
NoStrictPrefix(f) ==
    \A i, j \in 1..Len(f.kids) : ~StrictPathPrefix(f.kids[i][1], f.kids[j][1])
\* k1 and k2 name, in one group, a decorated field and its bare field.
AliasFork(k1, k2) ==
    LET s1 == split(k1, ".")
        s2 == split(k2, ".")
    IN \E i \in 1..Len(s1) :
          /\ i <= Len(s2)
          /\ SubSeq(s1, 1, i - 1) = SubSeq(s2, 1, i - 1)
          /\ \A j \in 1..(i - 1) : ~endswith(s1[j], "_")
          /\ endswith(s1[i], "_")
          /\ s2[i] = rstrip(s1[i], "_")
NoAliasFork(f) ==
    \A i, j \in 1..Len(f.kids) : ~AliasFork(f.kids[i][1], f.kids[j][1])

\* C2 as claimed: for every flat map with non-mapping values, no empty path
\* segment and no key a strict path-prefix of another, keys that differ by a
\* trailing "_" on a segment included, Flatten(Expand(F)) equals F.
C2_FlattenExpandAsClaimed ==
    (opt_ # None /\ NonMappingValues(fd) /\ NoEmptySegment(fd) /\ NoStrictPrefix(fd)) =>
        /\ ~IsErr(opt_)
        /\ fd_ # None => PyEq(fd_, fd)

\* C2 amended: the same law, for flat maps in which moreover no two keys put
\* a decorated name and its bare name into one group.
C2_FlattenExpand ==
    (/\ opt_ # None /\ NonMappingValues(fd) /\ NoEmptySegment(fd)
     /\ NoStrictPrefix(fd) /\ NoAliasFork(fd)) =>
        /\ ~IsErr(opt_)
        /\ fd_ # None => PyEq(fd_, fd)

C2_Witness ==
    /\ fd_ # None /\ NonMappingValues(fd) /\ NoEmptySegment(fd)
    /\ NoStrictPrefix(fd) /\ NoAliasFork(fd)
    /\ Len(fd.kids) = 2
    /\ \E i \in 1..2 : contains(fd.kids[i][1], ".") /\ contains(fd.kids[i][1], "_")
    /\ \E i \in 1..2 : isnamespace(opt_.kids[i][2])
    /\ PyEq(fd_, fd)

\* C9: for every flat map holding a key as a terminal value and another key
\* that has it as a strict path-prefix, Expand applies one policy in both
\* insertion orders: rejected in both, or accepted (later key wins) in both.
HasPrefixConflict(f) ==
    \E i, j \in 1..Len(f.kids) : StrictPathPrefix(f.kids[i][1], f.kids[j][1])
C9_OnePolicy ==
    (/\ opt_ # None /\ opt_rev # None
     /\ NonMappingValues(fd) /\ NoEmptySegment(fd) /\ HasPrefixConflict(fd)) =>
        (IsErr(opt_) <=> IsErr(opt_rev))

----------------------------------------------------------------------------
\* Leaves of a nested map: <<path, value>> for each non-mapping value.
RECURSIVE Leaves(_)
Leaves(g) ==
    UNION {IF isdict(g.kids[i][2])
           THEN {<<<<g.kids[i][1]>> \o l[1], l[2]>> : l \in Leaves(g.kids[i][2])}
           ELSE {<<<<g.kids[i][1]>>, g.kids[i][2]>>}
           : i \in 1..Len(g.kids)}
LeafPaths(g) == {l[1] : l \in Leaves(g)}
\* No path holds a mapping on one side and a non-mapping on the other.
RECURSIVE Compatible(_, _)
Compatible(x, y) ==
    \A i \in 1..Len(x.kids) :
        LET k == x.kids[i][1]
            v == x.kids[i][2]
        IN HasKey(y.kids, k) =>
              /\ isdict(v) = isdict(GetItem(y.kids, k))
              /\ isdict(v) => Compatible(v, GetItem(y.kids, k))
Disagree(x, y) ==
    \E l \in Leaves(x), m \in Leaves(y) : l[1] = m[1] /\ l[2] # m[2]

\* C7: for compatible dst and src, MergeInto(dst, src) holds src's value at
\* every leaf path of src, dst's value at every leaf path of dst that src does
\* not have, and differs from MergeInto(src, dst) whenever the two disagree
\* on a shared scalar path.
C7_MergeRightBias ==
    (upd # None /\ Compatible(d, u)) =>
        /\ ~IsErr(upd)
        /\ Leaves(u) \subseteq Leaves(upd)
        /\ \A l \in Leaves(d) : l[1] \notin LeafPaths(u) => l \in Leaves(upd)
        /\ (upd_swap # None /\ Disagree(d, u)) => ~PyEq(upd, upd_swap)

C7_Witness ==
    /\ upd # None /\ upd_swap # None /\ Compatible(d, u) /\ Disagree(d, u)
    /\ \E l \in Leaves(u) : Len(l[1]) = 2 /\ l[1] \in LeafPaths(d)
    /\ Leaves(u) \subseteq Leaves(upd)
    /\ ~PyEq(upd, upd_swap)

----------------------------------------------------------------------------
\* C10: ToNestedMap's result never holds, in one group, two names of the
\* same bare field ("x_" with "x", or "x_" with "x__"), whatever direct field
\* assignments were made after FromNestedMap.
RECURSIVE OneEntryPerField(_)
OneEntryPerField(g) ==
    \A i \in 1..Len(g.kids) :
        /\ ~SharesBare(g, g.kids[i][1])
        /\ isdict(g.kids[i][2]) => OneEntryPerField(g.kids[i][2])
C10_OneEntryPerField == dct # None => OneEntryPerField(dct)

----------------------------------------------------------------------------
\* A call of suggest_config has ended: it returned an Opt or raised.
Returned == pc = "idle" /\ isnamespace(outcome)
Raised(e) == pc = "idle" /\ outcome = Raise(e)
Sampled(k, x) == \E i \in 1..Len(calls) : calls[i] = <<k, x>>
TunePaths == KeySet(flat_tune.kids)

RECURSIVE DotPath(_)
DotPath(path) ==
    IF Len(path) = 1 THEN path[1] ELSE path[1] \o <<".">> \o DotPath(Tail(path))

\* C4: in a successful call the sampler is invoked exactly once per leaf path
\* of the flattened tune config, under that dot-path, in the flat map's order,
\* and for no other name; this holds of every call, the second as the first.
C4_SampledOncePerLeaf ==
    Returned =>
        /\ Len(calls) = Len(flat_tune.kids)
        /\ \A i \in 1..Len(calls) : calls[i][1] = flat_tune.kids[i][1]
        /\ \A i, j \in 1..Len(calls) : calls[i][1] = calls[j][1] => i = j
        /\ {calls[i][1] : i \in 1..Len(calls)}
               = {DotPath(p) : p \in LeafPaths(to_dict(tune_hp))}

C4_Witness ==
    /\ Returned /\ number = 2
    /\ Len(calls) = 2
    /\ calls[1][1] # calls[2][1]

\* C5: when a leaf of the flattened tune config has an unsupported kind and
\* the sampler does not fail first, Resolve raises the unsupported-kind error,
\* returns no config, and the sampler was invoked for exactly the leaves that
\* precede the first unsupported leaf.
FirstUnsupported ==
    CHOOSE i \in 1..Len(flat_tune.kids) :
        /\ flat_tune.kids[i][2].kind \notin {"int", "float", "categorical"}
        /\ \A j \in 1..(i - 1) :
              flat_tune.kids[j][2].kind \in {"int", "float", "categorical"}
HasUnsupported ==
    \E i \in 1..Len(flat_tune.kids) :
        flat_tune.kids[i][2].kind \notin {"int", "float", "categorical"}
C5_UnsupportedKind ==
    (pc = "idle" /\ outcome # None /\ HasUnsupported /\ ~Raised("TrialPruned")) =>
        /\ Raised("ValueError")
        /\ trial_opt = None
        /\ Len(calls) = FirstUnsupported - 1
        /\ \A i \in 1..Len(calls) : calls[i][1] = flat_tune.kids[i][1]

C5_Witness ==
    /\ Raised("ValueError")
    /\ Len(calls) = 1
    /\ Len(flat_tune.kids) = 2

\* C8: after any sequence of Resolve calls, however each ended,
\* ToNestedMap(baseConfig) and ToNestedMap(tuneConfig) are what they were
\* before the first call.
C8_InputsUnchanged ==
    /\ PyEq(to_dict(base_hp), base0)
    /\ PyEq(to_dict(tune_hp), tune0)

C8_Witness ==
    /\ number = 2 /\ Returned
    /\ HasKey(outcome.kids, OutDir)
    /\ GetItem(outcome.kids, OutDir) # GetItem(base_hp.kids, OutDir)
    /\ PyEq(to_dict(base_hp), base0)

====
